---- MODULE Spec2Model ----
(***************************************************************************)
(* Model of journee6/cpg.c: a PostgreSQL background worker that joins the  *)
(* Corosync closed process group "pgsql_group", follows its membership     *)
(* through cs_config_cb and polls RecoveryInProgress() in an event loop.   *)
(*                                                                         *)
(* The worker is one single-threaded process.  `pc' is the statement of    *)
(* cpg_main (or of cs_config_cb, which runs inside cpg_dispatch) that is   *)
(* executed next.  When the process ends, `pc' keeps the statement it      *)
(* ended at and `exitReason' says why.                                     *)
(***************************************************************************)
EXTENDS Integers, Sequences, FiniteSets, TLC

(***************************************************************************)
(* Bounds of the model.                                                    *)
(***************************************************************************)
\* longest member_list the substrate delivers
MaxView == 2
\* longest left_list the substrate delivers
MaxLeft == 2
\* largest joined_list_entries the substrate delivers
MaxJoined == 1
\* most group events waiting on the handle at once
MaxPending == 2

(***************************************************************************)
(* cs_error_t codes used by cpg.c (values of corosync/corotypes.h).        *)
(***************************************************************************)
CS_OK == 1
CS_ERR_LIBRARY == 2
CS_ERR_TRY_AGAIN == 6
CS_ERR_INVALID_PARAM == 7

\* the result codes the substrate may hand back to any call
ResultCodes == {CS_OK, CS_ERR_LIBRARY, CS_ERR_TRY_AGAIN, CS_ERR_INVALID_PARAM}

(***************************************************************************)
(* The group name (line 31) and the size of cpg_name.value                 *)
(* (CPG_MAX_NAME_LENGTH of corosync/cpg.h, used at line 226).              *)
(***************************************************************************)
CPG_GROUP_NAME == "pgsql_group"
CPG_MAX_NAME_LENGTH == 128

\* a slip: sizeof of the literal, which counts its terminator
strlenSizeof(s) == Len(s) + 1

\* strlen(s): the number of bytes before the terminator
strlen(s) == Len(s)

\* strncpy(dest, src, n), read back as a string: at most n bytes of src
strncpy(src, n) == IF Len(src) <= n THEN src ELSE SubSeq(src, 1, n)

(***************************************************************************)
(* cpg.interval: default and maximum of the GUC, in seconds.               *)
(***************************************************************************)
IntervalDefault == 10
\* INT_MAX / 1000
IntervalMax == 2147483

\* values the administrator gives to cpg.interval: 5, the default and the
\* largest accepted value
IntervalValues == {5, IntervalDefault, IntervalMax}

(***************************************************************************)
(* Addresses (struct cpg_address: nodeid, pid).  Me is this process,       *)
(* Twin another process of the same node, Peer a process of another node.  *)
(***************************************************************************)
Me == [nodeid |-> 7, pid |-> 123]
Twin == [nodeid |-> 7, pid |-> 456]
Peer == [nodeid |-> 8, pid |-> 123]

\* MyProcPid of miscadmin.h: the pid of this process
MyProcPid == Me.pid
\* the node id cpg_local_get() reports
LocalNodeId == Me.nodeid

Addresses == {Me, Twin, Peer}

\* sequences over S without repetition, of length at most n
RECURSIVE SeqsUpTo(_, _)
SeqsUpTo(S, n) ==
    IF n = 0 THEN {<<>>}
    ELSE LET shorter == SeqsUpTo(S, n - 1)
         IN  shorter \cup
             {Append(s, a) : s \in {t \in shorter : Len(t) = n - 1},
                             a \in S}

NoRepeat(s) == \A i, j \in 1..Len(s) : i # j => s[i] # s[j]

\* address lists without repetition, of length at most n
Lists(n) == {s \in SeqsUpTo(Addresses, n) : NoRepeat(s)}

Range(s) == {s[i] : i \in 1..Len(s)}

\* what the group guarantees of one configuration change: who left is not in
\* the view, and who joined is
ViewChange(ev) ==
    /\ Range(ev.member_list) \cap Range(ev.left_list) = {}
    /\ ev.joined_list_entries <= Len(ev.member_list)

\* the configuration-change events the substrate may deliver
Events ==
    {ev \in [member_list : Lists(MaxView),
             left_list : Lists(MaxLeft),
             joined_list_entries : 0..MaxJoined] : ViewChange(ev)}

\* the events delivered while the configuration is being reloaded: the view
\* with or without a peer, this process leaving or nobody leaving
ReloadEvents ==
    [member_list : {<<Me>>, <<Me, Peer>>},
     left_list : {<<>>, <<Me>>},
     joined_list_entries : {0}]

(***************************************************************************)
(* Text formatting (snprintf, appendStringInfo, elog).                     *)
(***************************************************************************)
Digits == <<"0", "1", "2", "3", "4", "5", "6", "7", "8", "9">>

\* the decimal digits of n >= 0
RECURSIVE Dec(_)
Dec(n) == IF n < 10 THEN Digits[n + 1] ELSE Dec(n \div 10) \o Digits[(n % 10) + 1]

\* "%u" and "%lu"
FormatU(n) == Dec(n)
\* "%d"
FormatD(n) == IF n < 0 THEN "-" \o Dec(0 - n) ELSE Dec(n)

\* snprintf(buf, size, ...): at most size - 1 characters are kept
Snprintf(size, text) ==
    IF Len(text) > size - 1 THEN SubSeq(text, 1, size - 1) ELSE text

\* size of the ps_display buffer of update_ps_display
PsDisplaySize == 128

\* the title update_ps_display() installs, from members and in_recovery
PsDisplay(m, rec) ==
    IF rec
    THEN Snprintf(PsDisplaySize, "[" \o FormatU(m) \o "] Hello!")
    ELSE Snprintf(PsDisplaySize, "[" \o FormatU(m) \o "] I'm the primary!")

\* msg.data after the loop of cs_config_cb: ", nodeid/pid" per member
RECURSIVE MemberMsg(_)
MemberMsg(list) ==
    IF list = <<>> THEN ""
    ELSE MemberMsg(SubSeq(list, 1, Len(list) - 1))
         \o ", " \o FormatD(list[Len(list)].nodeid)
         \o "/" \o FormatD(list[Len(list)].pid)

\* what "%s" may print from the two bytes after the terminator of an empty
\* msg.data: the buffer is palloc'ed and not cleared
StaleTexts == {"", "~"}

\* the texts "%s" can print for msg.data+2
MemberTexts(list) ==
    IF Len(MemberMsg(list)) >= 2
    THEN {SubSeq(MemberMsg(list), 3, Len(MemberMsg(list)))}
    ELSE StaleTexts

ConfchgLine(joined, left, text) ==
    "[cpg] " \o FormatU(joined) \o " join, " \o FormatU(left)
    \o " left, procs in group now: " \o text

LogLine(level, msg) == [level |-> level, msg |-> msg]

\* the source writes the ellipsis of lines 83 and 201 as one character; it is
\* three dots here
StartingLine == LogLine("LOG", "[cpg] Starting...")
JoinedLine == LogLine("LOG", "[cpg] joined group 'pgsql_group")
LeavingLine == LogLine("LOG", "[cpg] ...and leaving")
DispatchedLine == LogLine("DEBUG1", "[cpg] dispatched one event")
PromotedLine == LogLine("LOG", "[cpg] I've been promoted!")
HiLine == LogLine("LOG", "[cpg] Hi!")
LeftGroupLine == LogLine("FATAL", "[cpg] I left the closed process group!")
AlreadyJoinedLine ==
    LogLine("FATAL", "[cpg] the handle is already joined to a group")
InitFailedLine(r) ==
    LogLine("FATAL", "[cpg] could not init the cpg handle: " \o FormatD(r))
JoinFailedLine(r) ==
    LogLine("FATAL",
            "[cpg] could not join the close process group: " \o FormatD(r))
LocalGetFailedLine(r) ==
    LogLine("FATAL", "[cpg] failed to get local nodeid: " \o FormatD(r))
FdGetFailedLine(r) ==
    LogLine("FATAL",
            "[cpg] failed to get the CPG file descriptor: " \o FormatD(r))
DispatchFailedLine(r) ==
    LogLine("FATAL", "[cpg] dispatching callback failed: " \o FormatD(r))

\* before the first call of elog
NoLine == LogLine("", "")

\* elog(level, ...): the model remembers the last line logged
Logged(l, line) == line

(***************************************************************************)
(* State.                                                                  *)
(***************************************************************************)
VARIABLES
    pc,                   \* next statement of cpg_main / cs_config_cb
    exitReason,           \* "none" while the process runs, else why it ended
    exitCode,             \* exit status, -1 while the process runs
    recovery,             \* what RecoveryInProgress() returns now (host)
    in_recovery,          \* static bool in_recovery
    members,              \* static uint32_t members
    MyNodeID,             \* static uint32_t MyNodeID
    cpg_group,            \* struct cpg_name cpg_group of cpg_main
    interval,             \* static int interval (GUC cpg.interval)
    ps_display,           \* the process title set_ps_display() installed
    rc,                   \* cs_error_t rc of cpg_main, 0 before any call
    pending,              \* group events waiting on the handle (fd readable)
    queue,                \* their serial numbers, oldest first
    serial,               \* serial number of the event dispatched last, or -1
    attempts,             \* cpg_dispatch calls since the last wait was entered
    callbacks,            \* cs_config_cb calls since the last wait was entered
    member_list,          \* member_list of the last cs_config_cb call
    left_list,            \* left_list of the cs_config_cb call just made
    joined_list_entries,  \* joined_list_entries of that call
    ConfigReloadPending,  \* flag set by SignalHandlerForConfigReload
    latch,                \* MyLatch is set
    conf,                 \* cpg.interval in the configuration file
    waitTimeout,          \* timeout of the last WaitLatchOrSocket call, in ms
    wakeup,               \* why the last WaitLatchOrSocket returned
    log,                  \* the last line given to elog
    delivered,            \* cs_config_cb has been called at least once
    fresh,                \* the file is unchanged since the last SIGHUP
    hupOld                \* an iteration began since the last SIGHUP

cbArgs == <<member_list, left_list, joined_list_entries>>
exitVars == <<exitReason, exitCode>>
roleVars == <<recovery, in_recovery>>
reloadVars == <<ConfigReloadPending, conf, interval, fresh>>
waitVars == <<latch, waitTimeout, wakeup>>
iterVars == <<attempts, callbacks>>

vars == <<pc, exitVars, roleVars, members, MyNodeID, cpg_group, ps_display,
          rc, pending, queue, serial, iterVars, cbArgs, reloadVars, waitVars,
          log, delivered, hupOld>>

Running == exitReason = "none"

Init ==
    /\ pc = "start"
    /\ exitReason = "none"
    /\ exitCode = -1
    /\ recovery \in BOOLEAN
    /\ in_recovery = FALSE
    /\ members = 0
    /\ MyNodeID = 0
    /\ cpg_group = [value |-> "", length |-> 0]
    /\ interval = IntervalDefault
    /\ conf = IntervalDefault
    /\ ps_display = ""
    /\ rc = 0
    /\ pending = 0
    /\ queue = <<>>
    /\ serial = -1
    /\ attempts = 0
    /\ callbacks = 0
    /\ member_list = <<>>
    /\ left_list = <<>>
    /\ joined_list_entries = 0
    /\ ConfigReloadPending = FALSE
    /\ latch = FALSE
    /\ waitTimeout = 0
    /\ wakeup = "none"
    /\ log = NoLine
    /\ delivered = FALSE
    /\ fresh = TRUE
    /\ hupOld = TRUE

\* elog(FATAL, ...): the line is logged and the process ends where it is
Fatal(reason, line) ==
    /\ exitReason' = reason
    /\ exitCode' = 1
    /\ log' = Logged(log, line)
    /\ pc' = pc

(***************************************************************************)
(* cpg_main: startup.                                                      *)
(***************************************************************************)
\* lines 201-206: first log line, initial role and process title
Startup ==
    /\ Running
    /\ pc = "start"
    /\ log' = Logged(log, StartingLine)
    /\ in_recovery' = recovery
    /\ ps_display' = PsDisplay(members, recovery)
    /\ pc' = "initialize"
    /\ UNCHANGED <<exitVars, recovery, members, MyNodeID, rc, pending, cbArgs,
                   reloadVars, waitVars, delivered, hupOld, cpg_group, queue,
                   serial, iterVars>>

\* lines 220-223: cpg_model_initialize and its check
CpgModelInitialize ==
    /\ Running
    /\ pc = "initialize"
    /\ \E r \in ResultCodes :
          /\ rc' = r
          /\ IF r # CS_OK
             THEN Fatal("init", InitFailedLine(r))
             ELSE pc' = "join" /\ UNCHANGED <<exitVars, log>>
    /\ UNCHANGED <<roleVars, members, MyNodeID, ps_display, pending, cbArgs,
                   reloadVars, waitVars, delivered, hupOld, cpg_group, queue,
                   serial, iterVars>>

\* a slip: the two failures of cpg_join exchanged
CpgJoinSwapped ==
    /\ Running
    /\ pc = "join"
    /\ cpg_group' = [value |-> strncpy(CPG_GROUP_NAME, CPG_MAX_NAME_LENGTH),
                     length |-> strlen(CPG_GROUP_NAME)]
    /\ \E r \in ResultCodes :
          /\ rc' = r
          /\ IF r = CS_OK
             THEN /\ log' = Logged(log, JoinedLine)
                  /\ pc' = "local_get"
                  /\ UNCHANGED exitVars
             ELSE IF r # CS_ERR_INVALID_PARAM
                  THEN Fatal("already_joined", AlreadyJoinedLine)
                  ELSE Fatal("join", JoinFailedLine(r))
    /\ UNCHANGED <<roleVars, members, MyNodeID, ps_display, pending, cbArgs,
                   reloadVars, waitVars, delivered, hupOld, queue, serial,
                   iterVars>>

\* lines 226-236: the group name is filled in (cpg_group is not read before),
\* then cpg_join and its three outcomes
CpgJoin ==
    /\ Running
    /\ pc = "join"
    /\ cpg_group' = [value |-> strncpy(CPG_GROUP_NAME, CPG_MAX_NAME_LENGTH),
                     length |-> strlen(CPG_GROUP_NAME)]
    /\ \E r \in ResultCodes :
          /\ rc' = r
          /\ IF r = CS_OK
             THEN /\ log' = Logged(log, JoinedLine)
                  /\ pc' = "local_get"
                  /\ UNCHANGED exitVars
             ELSE IF r = CS_ERR_INVALID_PARAM
                  THEN Fatal("already_joined", AlreadyJoinedLine)
                  ELSE Fatal("join", JoinFailedLine(r))
    /\ UNCHANGED <<roleVars, members, MyNodeID, ps_display, pending, cbArgs,
                   reloadVars, waitVars, delivered, hupOld, queue, serial,
                   iterVars>>

\* a slip: the node id is fetched into a local and never stored
CpgLocalGetUnset ==
    /\ Running
    /\ pc = "local_get"
    /\ \E r \in ResultCodes :
          /\ rc' = r
          /\ IF r # CS_OK
             THEN Fatal("local_get", LocalGetFailedLine(r))
             ELSE pc' = "fd_get" /\ UNCHANGED <<exitVars, log>>
    /\ UNCHANGED <<roleVars, members, MyNodeID, ps_display, pending, cbArgs,
                   reloadVars, waitVars, delivered, hupOld, cpg_group, queue,
                   serial, iterVars>>

\* lines 239-241: cpg_local_get stores the node id, and its check
CpgLocalGet ==
    /\ Running
    /\ pc = "local_get"
    /\ \E r \in ResultCodes :
          /\ rc' = r
          /\ IF r # CS_OK
             THEN Fatal("local_get", LocalGetFailedLine(r)) /\ UNCHANGED MyNodeID
             ELSE /\ MyNodeID' = LocalNodeId
                  /\ pc' = "fd_get"
                  /\ UNCHANGED <<exitVars, log>>
    /\ UNCHANGED <<roleVars, members, ps_display, pending, cbArgs,
                   reloadVars, waitVars, delivered, hupOld, cpg_group, queue,
                   serial, iterVars>>

\* lines 245-247: cpg_fd_get and its check
CpgFdGet ==
    /\ Running
    /\ pc = "fd_get"
    /\ \E r \in ResultCodes :
          /\ rc' = r
          /\ IF r # CS_OK
             THEN Fatal("fd_get", FdGetFailedLine(r))
             ELSE pc' = "check_interrupts" /\ UNCHANGED <<exitVars, log>>
    /\ UNCHANGED <<roleVars, members, MyNodeID, ps_display, pending, cbArgs,
                   reloadVars, waitVars, delivered, hupOld, cpg_group, queue,
                   serial, iterVars>>

(***************************************************************************)
(* cpg_main: the event loop.                                               *)
(***************************************************************************)
\* line 252: no handler of this worker raises InterruptPending
CheckForInterrupts ==
    /\ Running
    /\ pc = "check_interrupts"
    /\ pc' = "dispatch"
    /\ hupOld' = TRUE
    /\ UNCHANGED <<exitVars, roleVars, members, MyNodeID, ps_display, rc,
                   pending, cbArgs, reloadVars, waitVars, log, delivered,
                   cpg_group, queue, serial, iterVars>>

\* a slip: members kept by adding who joined and taking off who left
ViewSizeDelta(old, ev) == old + ev.joined_list_entries - Len(ev.left_list)

\* line 111: members = member_list_entries
ViewSize(old, ev) == Len(ev.member_list)

\* line 256 with an event waiting that is a configuration change:
\* cpg_dispatch takes the oldest event (CS_DISPATCH_ONE_NONBLOCKING) and
\* calls cs_config_cb, whose line 111 stores the view size
DispatchConfchg(events) ==
    /\ Running
    /\ pc = "dispatch"
    /\ pending > 0
    /\ attempts' = attempts + 1
    /\ callbacks' = callbacks + 1
    /\ \E ev \in events :
          /\ member_list' = ev.member_list
          /\ left_list' = ev.left_list
          /\ joined_list_entries' = ev.joined_list_entries
          /\ members' = ViewSize(members, ev)
    /\ pending' = pending - 1
    /\ queue' = Tail(queue)
    /\ serial' = Head(queue)
    /\ delivered' = TRUE
    /\ pc' = "cb_update_ps"
    /\ UNCHANGED <<exitVars, roleVars, MyNodeID, ps_display, rc, reloadVars,
                   waitVars, log, hupOld, cpg_group>>

\* line 256 with an event waiting that has no callback (cpg_deliver_fn and
\* cpg_totem_confchg_fn are NULL, lines 214 and 217)
DispatchNoCallback ==
    /\ Running
    /\ pc = "dispatch"
    /\ pending > 0
    /\ attempts' = attempts + 1
    /\ UNCHANGED callbacks
    /\ pending' = pending - 1
    /\ queue' = Tail(queue)
    /\ serial' = Head(queue)
    /\ rc' = CS_OK
    /\ pc' = "dispatch_rc"
    /\ UNCHANGED <<exitVars, roleVars, members, MyNodeID, ps_display, cbArgs,
                   reloadVars, waitVars, log, delivered, hupOld, cpg_group>>

\* line 256 with no event waiting
DispatchIdle ==
    /\ Running
    /\ pc = "dispatch"
    /\ attempts' = attempts + 1
    /\ UNCHANGED callbacks
    /\ pending = 0
    /\ rc' = CS_ERR_TRY_AGAIN
    /\ pc' = "dispatch_rc"
    /\ UNCHANGED <<exitVars, roleVars, members, MyNodeID, ps_display, pending,
                   cbArgs, reloadVars, waitVars, log, delivered, hupOld,
                   cpg_group, queue, serial>>

\* line 256 failing in the library
DispatchError ==
    /\ Running
    /\ pc = "dispatch"
    /\ attempts' = attempts + 1
    /\ UNCHANGED callbacks
    /\ \E r \in ResultCodes \ {CS_OK, CS_ERR_TRY_AGAIN} : rc' = r
    /\ pc' = "dispatch_rc"
    /\ UNCHANGED <<exitVars, roleVars, members, MyNodeID, ps_display, pending,
                   cbArgs, reloadVars, waitVars, log, delivered, hupOld,
                   cpg_group, queue, serial>>

\* a slip: the title is left for later and the callback goes on to its log
CbUpdatePsDeferred ==
    /\ Running
    /\ pc = "cb_update_ps"
    /\ pc' = "cb_log"
    /\ UNCHANGED <<exitVars, roleVars, members, MyNodeID, ps_display, rc,
                   pending, cbArgs, reloadVars, waitVars, log, delivered,
                   hupOld, cpg_group, queue, serial, iterVars>>

\* line 112 of cs_config_cb
CbUpdatePs ==
    /\ Running
    /\ pc = "cb_update_ps"
    /\ ps_display' = PsDisplay(members, in_recovery)
    /\ pc' = "cb_log"
    /\ UNCHANGED <<exitVars, roleVars, members, MyNodeID, rc, pending, cbArgs,
                   reloadVars, waitVars, log, delivered, hupOld, cpg_group,
                   queue, serial, iterVars>>

\* lines 115-123 of cs_config_cb
CbLog ==
    /\ Running
    /\ pc = "cb_log"
    /\ \E text \in MemberTexts(member_list) :
          log' = Logged(log, LogLine("LOG",
                     ConfchgLine(joined_list_entries, Len(left_list), text)))
    /\ pc' = "cb_check"
    /\ UNCHANGED <<exitVars, roleVars, members, MyNodeID, ps_display, rc,
                   pending, cbArgs, reloadVars, waitVars, delivered, hupOld,
                   cpg_group, queue, serial, iterVars>>

\* a slip: the last element of the left list is looked at, not the first
ILeftTheGroupLast(left) ==
    /\ Len(left) # 0
    /\ left[Len(left)].pid = MyProcPid
    /\ left[Len(left)].nodeid = MyNodeID

\* a slip: the node id is not compared
ILeftTheGroupPidOnly(left) ==
    /\ Len(left) # 0
    /\ left[1].pid = MyProcPid

\* the condition of lines 126-128
ILeftTheGroup(left) ==
    /\ Len(left) # 0
    /\ left[1].pid = MyProcPid
    /\ left[1].nodeid = MyNodeID

\* lines 126-133 of cs_config_cb; on return cpg_dispatch returns CS_OK
CbCheckLeft ==
    /\ Running
    /\ pc = "cb_check"
    /\ IF ILeftTheGroup(left_list)
       THEN Fatal("left", LeftGroupLine) /\ UNCHANGED rc
       ELSE /\ rc' = CS_OK
            /\ pc' = "dispatch_rc"
            /\ UNCHANGED <<exitVars, log>>
    /\ UNCHANGED <<roleVars, members, MyNodeID, ps_display, pending, cbArgs,
                   reloadVars, waitVars, delivered, hupOld, cpg_group, queue,
                   serial, iterVars>>

\* a slip: every result other than CS_OK taken as "nothing to dispatch"
DispatchResultLenient ==
    /\ Running
    /\ pc = "dispatch_rc"
    /\ IF rc = CS_OK
       THEN log' = Logged(log, DispatchedLine)
       ELSE UNCHANGED log
    /\ pc' = "role_compare"
    /\ left_list' = <<>>
    /\ joined_list_entries' = 0
    /\ UNCHANGED <<exitVars, roleVars, members, MyNodeID, ps_display, rc,
                   pending, member_list, reloadVars, waitVars, delivered,
                   hupOld, cpg_group, queue, serial, iterVars>>

\* a slip: a failed dispatch leaves the loop, to lines 288-290
DispatchResultBreak ==
    /\ Running
    /\ pc = "dispatch_rc"
    /\ IF rc = CS_OK
       THEN /\ log' = Logged(log, DispatchedLine)
            /\ pc' = "role_compare"
            /\ UNCHANGED exitVars
       ELSE IF rc # CS_ERR_TRY_AGAIN
            THEN /\ log' = Logged(log,
                         LogLine("LOG", "[cpg] oops, the event loop broke"))
                 /\ exitReason' = "fell_through"
                 /\ exitCode' = 1
                 /\ pc' = pc
            ELSE pc' = "role_compare" /\ UNCHANGED <<exitVars, log>>
    /\ left_list' = <<>>
    /\ joined_list_entries' = 0
    /\ UNCHANGED <<roleVars, members, MyNodeID, ps_display, rc, pending,
                   member_list, reloadVars, waitVars, delivered, hupOld,
                   cpg_group, queue, serial, iterVars>>

\* a slip: after an event was dispatched the next one is asked for at once
DispatchResultDrain ==
    /\ Running
    /\ pc = "dispatch_rc"
    /\ IF rc = CS_OK
       THEN /\ log' = Logged(log, DispatchedLine)
            /\ pc' = "dispatch"
            /\ UNCHANGED exitVars
       ELSE IF rc # CS_ERR_TRY_AGAIN
            THEN Fatal("dispatch", DispatchFailedLine(rc))
            ELSE pc' = "role_compare" /\ UNCHANGED <<exitVars, log>>
    /\ left_list' = <<>>
    /\ joined_list_entries' = 0
    /\ UNCHANGED <<roleVars, members, MyNodeID, ps_display, rc, pending,
                   member_list, reloadVars, waitVars, delivered, hupOld,
                   cpg_group, queue, serial, iterVars>>

\* lines 257-263: what the loop does with the result of cpg_dispatch.
\* The left and joined lists of the callback are not kept past this point.
DispatchResult ==
    /\ Running
    /\ pc = "dispatch_rc"
    /\ IF rc = CS_OK
       THEN /\ log' = Logged(log, DispatchedLine)
            /\ pc' = "role_compare"
            /\ UNCHANGED exitVars
       ELSE IF rc # CS_ERR_TRY_AGAIN
            THEN Fatal("dispatch", DispatchFailedLine(rc))
            ELSE pc' = "role_compare" /\ UNCHANGED <<exitVars, log>>
    /\ left_list' = <<>>
    /\ joined_list_entries' = 0
    /\ UNCHANGED <<roleVars, members, MyNodeID, ps_display, rc, pending,
                   member_list, reloadVars, waitVars, delivered, hupOld,
                   cpg_group, queue, serial, iterVars>>

\* a slip: only the end of recovery is taken as a change of role
RoleCompareLeavingOnly ==
    /\ Running
    /\ pc = "role_compare"
    /\ IF in_recovery /\ ~recovery
       THEN log' = Logged(log, PromotedLine) /\ pc' = "role_assign"
       ELSE log' = Logged(log, HiLine) /\ pc' = "reload"
    /\ UNCHANGED <<exitVars, roleVars, members, MyNodeID, ps_display, rc,
                   pending, cbArgs, reloadVars, waitVars, delivered, hupOld,
                   cpg_group, queue, serial, iterVars>>

\* lines 265-267 and 271-272: first read of RecoveryInProgress()
RoleCompare ==
    /\ Running
    /\ pc = "role_compare"
    /\ IF recovery # in_recovery
       THEN log' = Logged(log, PromotedLine) /\ pc' = "role_assign"
       ELSE log' = Logged(log, HiLine) /\ pc' = "reload"
    /\ UNCHANGED <<exitVars, roleVars, members, MyNodeID, ps_display, rc,
                   pending, cbArgs, reloadVars, waitVars, delivered, hupOld,
                   cpg_group, queue, serial, iterVars>>

\* line 268: second read of RecoveryInProgress()
RoleAssign ==
    /\ Running
    /\ pc = "role_assign"
    /\ in_recovery' = recovery
    /\ pc' = "role_update_ps"
    /\ UNCHANGED <<exitVars, recovery, members, MyNodeID, ps_display, rc,
                   pending, cbArgs, reloadVars, waitVars, log, delivered,
                   hupOld, cpg_group, queue, serial, iterVars>>

\* a slip: the title is not refreshed after the role changed
RoleUpdatePsSkipped ==
    /\ Running
    /\ pc = "role_update_ps"
    /\ pc' = "reload"
    /\ UNCHANGED <<exitVars, roleVars, members, MyNodeID, ps_display, rc,
                   pending, cbArgs, reloadVars, waitVars, log, delivered,
                   hupOld, cpg_group, queue, serial, iterVars>>

\* line 269
RoleUpdatePs ==
    /\ Running
    /\ pc = "role_update_ps"
    /\ ps_display' = PsDisplay(members, in_recovery)
    /\ pc' = "reload"
    /\ UNCHANGED <<exitVars, roleVars, members, MyNodeID, rc, pending, cbArgs,
                   reloadVars, waitVars, log, delivered, hupOld, cpg_group,
                   queue, serial, iterVars>>

\* line 276: a pending reload reads the configuration file again
HandleMainLoopInterrupts ==
    /\ Running
    /\ pc = "reload"
    /\ IF ConfigReloadPending
       THEN ConfigReloadPending' = FALSE /\ interval' = conf
       ELSE UNCHANGED <<ConfigReloadPending, interval>>
    /\ pc' = "wait"
    /\ UNCHANGED <<exitVars, roleVars, members, MyNodeID, ps_display, rc,
                   pending, cbArgs, conf, fresh, waitVars, log, delivered,
                   hupOld, cpg_group, queue, serial, iterVars>>

\* a slip: the timeout computed from the default, not from interval
WaitLatchOrSocketDefault ==
    /\ Running
    /\ pc = "wait"
    /\ waitTimeout' = IntervalDefault * 1000
    /\ wakeup' = "none"
    /\ attempts' = 0
    /\ callbacks' = 0
    /\ pc' = "waiting"
    /\ UNCHANGED <<exitVars, roleVars, members, MyNodeID, ps_display, rc,
                   pending, cbArgs, reloadVars, latch, log, delivered, hupOld,
                   cpg_group, queue, serial>>

\* a slip: the latch is reset on the way into the wait, not after it
WaitLatchOrSocketResetFirst ==
    /\ Running
    /\ pc = "wait"
    /\ latch' = FALSE
    /\ waitTimeout' = interval * 1000
    /\ wakeup' = "none"
    /\ attempts' = 0
    /\ callbacks' = 0
    /\ pc' = "waiting"
    /\ UNCHANGED <<exitVars, roleVars, members, MyNodeID, ps_display, rc,
                   pending, cbArgs, reloadVars, log, delivered, hupOld,
                   cpg_group, queue, serial>>

\* lines 279-284: the call of WaitLatchOrSocket and its timeout argument
WaitLatchOrSocket ==
    /\ Running
    /\ pc = "wait"
    /\ waitTimeout' = interval * 1000
    /\ wakeup' = "none"
    /\ attempts' = 0
    /\ callbacks' = 0
    /\ pc' = "waiting"
    /\ UNCHANGED <<exitVars, roleVars, members, MyNodeID, ps_display, rc,
                   pending, cbArgs, reloadVars, latch, log, delivered, hupOld,
                   cpg_group, queue, serial>>

WaitReturns(why) ==
    /\ Running
    /\ pc = "waiting"
    /\ wakeup' = why
    /\ pc' = "reset_latch"
    /\ UNCHANGED <<exitVars, roleVars, members, MyNodeID, ps_display, rc,
                   pending, cbArgs, reloadVars, latch, waitTimeout, log,
                   delivered, hupOld, cpg_group, queue, serial, iterVars>>

\* WL_LATCH_SET
WakeOnLatch == latch /\ WaitReturns("latch")
\* WL_SOCKET_READABLE on cpg_fd
WakeOnSocket == pending > 0 /\ WaitReturns("socket")
\* a slip: WL_SOCKET_READABLE left out, the wait does not watch cpg_fd
WakeOnTimeoutNoSocket == ~latch /\ WaitReturns("timeout")

\* WL_TIMEOUT: nothing else happened for waitTimeout ms
WakeOnTimeout == ~latch /\ pending = 0 /\ WaitReturns("timeout")

\* WL_EXIT_ON_PM_DEATH: the wait ends the process
PostmasterDeath ==
    /\ Running
    /\ pc = "waiting"
    /\ exitReason' = "pm_death"
    /\ exitCode' = 1
    /\ UNCHANGED <<pc, roleVars, members, MyNodeID, ps_display, rc, pending,
                   cbArgs, reloadVars, waitVars, log, delivered, hupOld,
                   cpg_group, queue, serial, iterVars>>

\* line 285
ResetLatch ==
    /\ Running
    /\ pc = "reset_latch"
    /\ latch' = FALSE
    /\ pc' = "check_interrupts"
    /\ UNCHANGED <<exitVars, roleVars, members, MyNodeID, ps_display, rc,
                   pending, cbArgs, reloadVars, waitTimeout, wakeup, log,
                   delivered, hupOld, cpg_group, queue, serial, iterVars>>

(***************************************************************************)
(* Signal handlers and the environment.                                    *)
(***************************************************************************)
\* lines 80-86: SIGTERM, at any statement once signals are unblocked
cpg_sigterm ==
    /\ Running
    /\ log' = Logged(log, LeavingLine)
    /\ exitReason' = "sigterm"
    /\ exitCode' = 0
    /\ UNCHANGED <<pc, roleVars, members, MyNodeID, ps_display, rc, pending,
                   cbArgs, reloadVars, waitVars, delivered, hupOld, cpg_group,
                   queue, serial, iterVars>>

\* line 165: SIGHUP runs SignalHandlerForConfigReload
SignalHandlerForConfigReload ==
    /\ Running
    /\ ConfigReloadPending' = TRUE
    /\ latch' = TRUE
    /\ fresh' = TRUE
    /\ hupOld' = FALSE
    /\ UNCHANGED <<pc, exitVars, roleVars, members, MyNodeID, ps_display, rc,
                   pending, cbArgs, conf, interval, waitTimeout, wakeup, log,
                   delivered, cpg_group, queue, serial, iterVars>>

\* the administrator gives cpg.interval another value in the file
\* (lines 175-187: the host accepts only values of the declared range)
EditInterval(values) ==
    /\ Running
    /\ \E v \in values \ {conf} : conf' = v
    /\ fresh' = FALSE
    /\ UNCHANGED <<pc, exitVars, roleVars, members, MyNodeID, ps_display, rc,
                   pending, cbArgs, ConfigReloadPending, interval, waitVars,
                   log, delivered, hupOld, cpg_group, queue, serial, iterVars>>

\* the instance is promoted, or enters recovery again:
\* RecoveryInProgress() of lines 204, 265 and 268 changes its answer
RoleChange ==
    /\ Running
    /\ recovery' = ~recovery
    /\ UNCHANGED <<pc, exitVars, in_recovery, members, MyNodeID, ps_display,
                   rc, pending, cbArgs, reloadVars, waitVars, log, delivered,
                   hupOld, cpg_group, queue, serial, iterVars>>

\* the serial number of the next event to arrive, counted modulo n
NextSerial(n) ==
    ((IF queue = <<>> THEN serial ELSE queue[Len(queue)]) + 1) % n

\* the group sends an event to the joined handle: cpg_fd becomes readable.
\* Events are numbered modulo n in the order they arrive (n = 1: they are
\* not told apart).
GroupEvent(n) ==
    /\ Running
    /\ pc \notin {"start", "initialize", "join"}
    /\ pending < MaxPending
    /\ pending' = pending + 1
    /\ queue' = Append(queue, NextSerial(n))
    /\ UNCHANGED <<pc, exitVars, roleVars, members, MyNodeID, ps_display, rc,
                   cbArgs, reloadVars, waitVars, log, delivered, hupOld,
                   cpg_group, serial, iterVars>>

(***************************************************************************)
(* Specifications.                                                         *)
(***************************************************************************)
Program(events) ==
    \/ Startup
    \/ CpgModelInitialize
    \/ CpgJoin
    \/ CpgLocalGet
    \/ CpgFdGet
    \/ CheckForInterrupts
    \/ DispatchConfchg(events)
    \/ DispatchNoCallback
    \/ DispatchIdle
    \/ DispatchError
    \/ CbUpdatePs
    \/ CbLog
    \/ CbCheckLeft
    \/ DispatchResult
    \/ RoleCompare
    \/ RoleAssign
    \/ RoleUpdatePs
    \/ HandleMainLoopInterrupts
    \/ WaitLatchOrSocket
    \/ WakeOnLatch
    \/ WakeOnSocket
    \/ WakeOnTimeout
    \/ PostmasterDeath
    \/ ResetLatch

\* the worker with the group, the host's role, SIGTERM and SIGHUP around it
Next ==
    \/ Program(Events)
    \/ cpg_sigterm
    \/ RoleChange
    \/ GroupEvent(1)
    \/ SignalHandlerForConfigReload

Spec == Init /\ [][Next]_vars

\* the worker with, in addition, edits of the configuration file
NextReload ==
    \/ Program(ReloadEvents)
    \/ cpg_sigterm
    \/ RoleChange
    \/ GroupEvent(1)
    \/ SignalHandlerForConfigReload
    \/ EditInterval(IntervalValues)

SpecReload == Init /\ [][NextReload]_vars

\* as many serial numbers as tell apart the waiting events and the last
\* one dispatched
Serials == MaxPending + 1

\* The statements the worker runs on a host whose role does not change:
\* lines 266-269 are never reached there.
ProgramSteadyRole(events) ==
    \/ Startup
    \/ CpgModelInitialize
    \/ CpgJoin
    \/ CpgLocalGet
    \/ CpgFdGet
    \/ CheckForInterrupts
    \/ DispatchConfchg(events)
    \/ DispatchNoCallback
    \/ DispatchIdle
    \/ DispatchError
    \/ CbUpdatePs
    \/ CbLog
    \/ CbCheckLeft
    \/ DispatchResult
    \/ RoleCompare
    \/ HandleMainLoopInterrupts
    \/ WaitLatchOrSocket
    \/ WakeOnLatch
    \/ WakeOnSocket
    \/ WakeOnTimeout
    \/ PostmasterDeath
    \/ ResetLatch

\* the worker with numbered group events, on a host whose role is steady
NextBurst ==
    \/ ProgramSteadyRole(ReloadEvents)
    \/ cpg_sigterm
    \/ GroupEvent(Serials)
    \/ SignalHandlerForConfigReload

\* The worker is a process of its own that is always given the processor:
\* while it runs it goes on to its next statement, every library call
\* returns, and a wait ends with the latch, the socket, the timeout or the
\* death of the postmaster.
SpecBurst ==
    Init /\ [][NextBurst]_vars /\ WF_vars(ProgramSteadyRole(ReloadEvents))

\* the worker on a host whose role changes, group events not told apart
NextRole ==
    \/ Program(ReloadEvents)
    \/ cpg_sigterm
    \/ RoleChange
    \/ GroupEvent(1)
    \/ SignalHandlerForConfigReload

\* the same scheduling of the worker
SpecRole == Init /\ [][NextRole]_vars /\ WF_vars(Program(ReloadEvents))

(***************************************************************************)
(* Properties.                                                             *)
(***************************************************************************)
\* the statements of cs_config_cb
CallbackPcs == {"cb_update_ps", "cb_log", "cb_check"}

\* the statements of the event loop, callback included
LoopPcs ==
    CallbackPcs \cup
    {"check_interrupts", "dispatch", "dispatch_rc", "role_compare",
     "role_assign", "role_update_ps", "reload", "wait", "waiting",
     "reset_latch"}

\* this process as the group names it
OwnAddress == [nodeid |-> MyNodeID, pid |-> MyProcPid]

\* the first element of the left list is this process
OwnAddressLeftFirst == left_list # <<>> /\ left_list[1] = OwnAddress

\* this process is somewhere in the left list, and not in the view
OwnAddressLeft ==
    /\ \E i \in 1..Len(left_list) : left_list[i] = OwnAddress
    /\ \A i \in 1..Len(member_list) : member_list[i] # OwnAddress

\* a step of the program itself, not of a signal handler or the environment
ProgramStep == exitReason' # "sigterm" /\ (pc' # pc \/ exitReason' # exitReason)

\* C1: a callback whose left list starts with this process never returns to
\* the loop: its check of the left list ends the process with the FATAL line
\* "I left the closed process group!", and nothing runs once the process ended
C1_SelfEvictionEndsInCallback ==
    [][/\ (pc \in CallbackPcs /\ OwnAddressLeftFirst) => pc' \in CallbackPcs
       /\ (Running /\ pc = "cb_check" /\ OwnAddressLeftFirst /\ ProgramStep)
             => (exitReason' = "left" /\ log' = LeftGroupLine /\ pc' = pc)
       /\ ~Running => UNCHANGED vars]_vars

C1_Witness ==
    /\ exitReason = "left"
    /\ pc = "cb_check"
    /\ OwnAddressLeftFirst
    /\ log = LeftGroupLine

\* C2: a callback whose left list holds this process at any position, the
\* view not holding it, does not return to the loop
C2_EvictedAtAnyPosition ==
    ~(Running /\ pc = "dispatch_rc" /\ rc = CS_OK /\ OwnAddressLeft)

\* C3: a callback whose left list is empty or starts with another process
\* never ends the process as evicted, even with this process further down the
\* list: its check returns to the loop, which goes on with CS_OK
C3_NoEvictionUnlessFirst ==
    [][(Running /\ pc \in CallbackPcs /\ ~OwnAddressLeftFirst)
          => /\ exitReason' # "left"
             /\ pc' \in CallbackPcs \cup {"dispatch_rc"}
             /\ (pc = "cb_check" /\ ProgramStep)
                   => (Running' /\ pc' = "dispatch_rc" /\ rc' = CS_OK)]_vars

C3_Witness ==
    /\ Running
    /\ pc = "dispatch_rc"
    /\ rc = CS_OK
    /\ Len(left_list) = 2
    /\ left_list[2] = OwnAddress

\* C4: members is the length of the view of the last callback, 0 before any
C4_MembersIsViewSize ==
    /\ members = Len(member_list)
    /\ ~delivered => members = 0

C4_Witness ==
    /\ exitReason = "left"
    /\ members = 2
    /\ member_list = <<Twin, Peer>>

\* the two titles of the worker
TitleOf(m, rec) ==
    IF rec THEN "[" \o Dec(m) \o "] Hello!"
    ELSE "[" \o Dec(m) \o "] I'm the primary!"

\* C5: whenever the loop is at its wait, the process title is the one of the
\* current members and in_recovery
C5_TitleFreshAtWait ==
    pc \in {"wait", "waiting"} =>
        /\ ps_display = TitleOf(members, in_recovery)
        /\ (members = 1 /\ in_recovery) => ps_display = "[1] Hello!"
        /\ (members = 2 /\ in_recovery) => ps_display = "[2] Hello!"
        /\ (members = 2 /\ ~in_recovery) => ps_display = "[2] I'm the primary!"

C5_Witness ==
    /\ Running
    /\ pc = "waiting"
    /\ delivered
    /\ ps_display = "[2] I'm the primary!"

\* C6: the role step logs "I've been promoted!" exactly when the recorded
\* role is in recovery and the role it reads is not
C6_PromotedOnlyOnPromotion ==
    [][(Running /\ pc = "role_compare" /\ ProgramStep)
          => (log' = PromotedLine <=> (in_recovery /\ ~recovery))]_vars

\* C7: with CS_OK or CS_ERR_TRY_AGAIN the loop goes on to the role step, which
\* is entered in no other way; any other result of cpg_dispatch ends the
\* process there with the FATAL line, and nothing runs once the process ended
C7_DispatchOutcome ==
    [][/\ (Running /\ pc = "dispatch_rc" /\ ProgramStep)
             => IF rc \in {CS_OK, CS_ERR_TRY_AGAIN}
                THEN Running' /\ pc' = "role_compare"
                ELSE /\ exitReason' = "dispatch"
                     /\ pc' = pc
                     /\ log' = LogLine("FATAL",
                           "[cpg] dispatching callback failed: " \o Dec(rc))
       /\ (pc # "role_compare" /\ pc' = "role_compare")
             => (pc = "dispatch_rc" /\ rc \in {CS_OK, CS_ERR_TRY_AGAIN})
       /\ ~Running => UNCHANGED vars]_vars

C7_Witness ==
    /\ exitReason = "dispatch"
    /\ pc = "dispatch_rc"
    /\ rc = CS_ERR_INVALID_PARAM
    /\ log.level = "FATAL"

\* the statements of cpg_main before the loop
StartupPcs == {"start", "initialize", "join", "local_get", "fd_get"}

\* the reasons of a FATAL while the session is opened
OpenFailures == {"init", "already_joined", "join", "local_get", "fd_get"}

\* C8: a startup call that does not return CS_OK ends the process at that
\* call with its FATAL line (cpg_join: "already joined" for
\* CS_ERR_INVALID_PARAM, "could not join" otherwise); the next call is reached
\* only after CS_OK, and no callback runs and no event is read before the loop
C8_OpenIsFailFatal ==
    /\ exitReason = "init" =>
          (pc = "initialize" /\ rc # CS_OK /\ log = InitFailedLine(rc))
    /\ exitReason = "already_joined" =>
          (pc = "join" /\ rc = CS_ERR_INVALID_PARAM /\ log = AlreadyJoinedLine)
    /\ exitReason = "join" =>
          /\ pc = "join"
          /\ rc \notin {CS_OK, CS_ERR_INVALID_PARAM}
          /\ log = JoinFailedLine(rc)
    /\ exitReason = "local_get" =>
          (pc = "local_get" /\ rc # CS_OK /\ log = LocalGetFailedLine(rc))
    /\ exitReason = "fd_get" =>
          (pc = "fd_get" /\ rc # CS_OK /\ log = FdGetFailedLine(rc))
    /\ (pc \in {"join", "local_get", "fd_get"} /\ exitReason \notin OpenFailures)
          => rc = CS_OK
    /\ exitReason \in OpenFailures => log.level = "FATAL"
    /\ pc \in StartupPcs => (~delivered /\ members = 0 /\ member_list = <<>>)
    /\ pc \in LoopPcs => exitReason \notin OpenFailures

C8_Witness ==
    /\ exitReason = "already_joined"
    /\ pc = "join"
    /\ ~delivered

\* C9: in the loop the process ends only by SIGTERM (exit code 0, after the
\* line "...and leaving", at any statement), by the FATAL of a failed dispatch
\* or of the eviction, or by the death of the postmaster during the wait;
\* it never ends by falling out of the loop
C9_ExitPaths ==
    /\ (pc \in LoopPcs /\ ~Running) =>
          \/ exitReason = "sigterm" /\ exitCode = 0 /\ log = LeavingLine
          \/ exitReason = "dispatch" /\ pc = "dispatch_rc" /\ log.level = "FATAL"
          \/ exitReason = "left" /\ pc = "cb_check" /\ log.level = "FATAL"
          \/ exitReason = "pm_death" /\ pc = "waiting"
    /\ exitReason = "sigterm" => (exitCode = 0 /\ log = LeavingLine)
    /\ exitReason # "fell_through"
    /\ Running <=> exitCode = -1

C9_Witness ==
    /\ exitReason = "sigterm"
    /\ exitCode = 0
    /\ pc = "cb_log"
    /\ log = LeavingLine

\* C10: a wait is called with interval * 1000 ms; in an iteration begun after
\* the last SIGHUP no reload is left pending at the wait, and if the file is
\* as it was at that SIGHUP the timeout is the file's value * 1000 (5000 for 5)
C10_ReloadBeforeWait ==
    /\ pc = "waiting" => waitTimeout = interval * 1000
    /\ (pc \in {"wait", "waiting"} /\ hupOld) => ~ConfigReloadPending
    /\ (pc = "waiting" /\ hupOld /\ fresh) =>
          /\ waitTimeout = conf * 1000
          /\ conf = 5 => waitTimeout = 5000

C10_Witness ==
    /\ Running
    /\ pc = "waiting"
    /\ hupOld
    /\ fresh
    /\ conf = 5
    /\ waitTimeout = 5000


(***************************************************************************)
(* C11: the group name handed to cpg_join.                                 *)
(***************************************************************************)
\* the statements after the call of cpg_join
AfterJoinPcs == {"local_get", "fd_get"} \cup LoopPcs \cup CallbackPcs

\* C11 as stated: once cpg_join has been called, the group name is the
\* literal pgsql_group, its stored length is 10 and the length does not
\* exceed the largest name length of the substrate.
C11_GroupNameLength10 ==
    pc \in AfterJoinPcs =>
        /\ cpg_group.value = "pgsql_group"
        /\ cpg_group.length = 10
        /\ cpg_group.length <= CPG_MAX_NAME_LENGTH

\* C11, amended: once cpg_join has been called, the group name is the
\* literal pgsql_group, its stored length is 11 (the number of bytes of
\* the literal) and the length does not exceed the largest name length of
\* the substrate.
C11_GroupNameLength11 ==
    pc \in AfterJoinPcs =>
        /\ cpg_group.value = "pgsql_group"
        /\ cpg_group.length = 11
        /\ cpg_group.length = Len(cpg_group.value)
        /\ cpg_group.length <= CPG_MAX_NAME_LENGTH

C11_Witness ==
    /\ pc = "local_get"
    /\ rc = CS_OK
    /\ log = JoinedLine
    /\ cpg_group = [value |-> "pgsql_group", length |-> 11]


(***************************************************************************)
(* C12: the node id of this process.                                       *)
(***************************************************************************)
\* C12: MyNodeID is written once, by the cpg_local_get that follows the
\* successful cpg_join, and keeps that value; in every statement of the
\* loop, and so in every callback that compares the left list with it,
\* it is the node id the substrate gave and not the initial 0.
C12_NodeIdSetOnce ==
    [][/\ MyNodeID' # MyNodeID =>
            /\ pc = "local_get" /\ pc' = "fd_get"
            /\ log = JoinedLine
            /\ rc' = CS_OK
            /\ MyNodeID = 0
       /\ pc' \in LoopPcs => MyNodeID' = LocalNodeId /\ MyNodeID' # 0]_vars

C12_Witness ==
    /\ pc = "cb_check"
    /\ Len(left_list) > 0
    /\ left_list[1].nodeid = MyNodeID
    /\ MyNodeID = LocalNodeId


(***************************************************************************)
(* C13: the order of the statements of one iteration.                      *)
(***************************************************************************)
\* the statements of an iteration that follow the call of cpg_dispatch
AfterDispatchPcs ==
    CallbackPcs \cup
    {"dispatch_rc", "role_compare", "role_assign", "role_update_ps", "reload",
     "wait"}

\* which statement of the loop may follow which
LoopOrder ==
    {<<"fd_get", "check_interrupts">>,
     <<"check_interrupts", "dispatch">>,
     <<"dispatch", "cb_update_ps">>, <<"dispatch", "dispatch_rc">>,
     <<"cb_update_ps", "cb_log">>, <<"cb_log", "cb_check">>,
     <<"cb_check", "dispatch_rc">>,
     <<"dispatch_rc", "role_compare">>,
     <<"role_compare", "role_assign">>, <<"role_compare", "reload">>,
     <<"role_assign", "role_update_ps">>, <<"role_update_ps", "reload">>,
     <<"reload", "wait">>,
     <<"wait", "waiting">>,
     <<"waiting", "reset_latch">>,
     <<"reset_latch", "check_interrupts">>}

\* C13: an iteration runs, in this order, the interrupt check, one call of
\* cpg_dispatch (with the callback inside it, if any), the role sampling,
\* the reload handling, the wait and the latch reset.  From one wait to the
\* next there is exactly one dispatch attempt and at most one callback, and
\* the role is sampled after that attempt.
C13_IterationOrder ==
    [][/\ (pc' # pc /\ pc' \in LoopPcs) => <<pc, pc'>> \in LoopOrder
       /\ attempts' <= 1
       /\ callbacks' <= attempts'
       /\ pc' \in AfterDispatchPcs => attempts' = 1
       /\ pc' \in LoopPcs \ AfterDispatchPcs => attempts' = 0
       /\ callbacks' > callbacks => pc = "dispatch" /\ pc' = "cb_update_ps"
      ]_vars

C13_Witness ==
    /\ pc = "wait"
    /\ attempts = 1
    /\ callbacks = 1
    /\ wakeup = "socket"
    /\ pending > 0


(***************************************************************************)
(* C14: the order of the steps of cs_config_cb.                            *)
(***************************************************************************)
\* the last line logged is the membership line of the current callback
ConfchgLogged ==
    \E text \in MemberTexts(member_list) :
        log = LogLine("LOG",
                  ConfchgLine(joined_list_entries, Len(left_list), text))

\* C14 as stated: a callback sets members, logs its membership line, checks
\* the left list and only then refreshes the title: inside a callback the
\* title changes only once the membership line is logged, and never when
\* the left list starts with this process; the FATAL of a self-evicting
\* callback comes after its membership line.
C14_TitleRefreshedLast ==
    [][/\ (pc \in CallbackPcs /\ ps_display' # ps_display) =>
            ConfchgLogged /\ ~OwnAddressLeftFirst
       /\ (Running /\ exitReason' = "left") => ConfchgLogged
      ]_vars

\* C14, amended: a callback sets members (1), refreshes the title (2), logs
\* its membership line (3) and only then checks the left list (4); a
\* self-evicting callback has refreshed the title to the new view and has
\* logged its membership line when it raises the FATAL.
C14_CallbackOrder ==
    [][/\ (pc = "dispatch" /\ pc' = "cb_update_ps") =>
            /\ members' = Len(member_list')
            /\ ps_display' = ps_display
            /\ log' = log
       /\ (pc = "cb_update_ps" /\ pc' # pc) =>
            /\ pc' = "cb_log"
            /\ ps_display' = TitleOf(members, in_recovery)
            /\ members' = members
            /\ log' = log
       /\ (pc = "cb_log" /\ pc' # pc) =>
            /\ pc' = "cb_check"
            /\ ConfchgLogged'
            /\ ps_display' = ps_display
       /\ (Running /\ pc = "cb_check" /\ ProgramStep) =>
            /\ ConfchgLogged
            /\ ps_display = TitleOf(members, in_recovery)
            /\ ps_display' = ps_display
            /\ IF OwnAddressLeftFirst
               THEN exitReason' = "left" /\ log' = LeftGroupLine
               ELSE pc' = "dispatch_rc" /\ log' = log
      ]_vars

C14_Witness ==
    /\ exitReason = "left"
    /\ log = LeftGroupLine
    /\ member_list = <<Peer>>
    /\ members = 1
    /\ ps_display \in {"[1] Hello!", "[1] I'm the primary!"}


(***************************************************************************)
(* C15: a burst of group events.                                           *)
(***************************************************************************)
\* C15: the waiting events are dispatched oldest first and none is
\* skipped, one per iteration; an attempt made while events wait takes one
\* (unless the library fails); a wait entered or left while events wait
\* does not run to its timeout; and every waiting event is dispatched in
\* the end unless the process ends first.
C15_BurstConsumed ==
    /\ [][/\ (queue' # queue /\ Len(queue') <= Len(queue)) =>
               /\ pc = "dispatch" /\ attempts = 0
               /\ queue' = Tail(queue)
               /\ serial' = Head(queue)
          /\ serial' # serial => serial' = (serial + 1) % Serials
          /\ (pc = "dispatch" /\ pc' # pc /\ queue # <<>>) =>
               \/ queue' = Tail(queue) /\ pending' = pending - 1
               \/ rc' \notin {CS_OK, CS_ERR_TRY_AGAIN}
          /\ (pc = "waiting" /\ pc' = "reset_latch" /\ queue # <<>>) =>
               wakeup' \in {"socket", "latch"}
          ]_vars
    /\ \A i \in 0..MaxPending :
          (i \in Range(queue)) ~> (serial = i \/ ~Running)

C15_Witness ==
    /\ pc = "cb_update_ps"
    /\ wakeup = "socket"
    /\ serial = 1
    /\ queue = <<2>>
    /\ callbacks = 1


(***************************************************************************)
(* C16: a change of role is detected.                                      *)
(***************************************************************************)
\* the iteration that found role v has logged, recorded and shown it
RoleRecorded(v) ==
    /\ pc = "reload"
    /\ log = PromotedLine
    /\ in_recovery = v
    /\ ps_display = TitleOf(members, v)

\* C16: when the host's role differs from the recorded one and does not
\* change again, the worker, unless it ends first, comes to an iteration
\* that logs the transition, records the new role and refreshes the title;
\* the role test of every iteration does so when the two differ, so the
\* first iteration begun after the change is that iteration.
C16_RoleDetected ==
    /\ \A v \in BOOLEAN :
          (Running /\ pc # "start" /\ recovery = v /\ in_recovery # v)
              ~> (~Running \/ recovery # v \/ RoleRecorded(v))
    /\ [][/\ (pc = "role_compare" /\ pc' # pc /\ recovery # in_recovery) =>
               pc' = "role_assign" /\ log' = PromotedLine
          /\ (pc = "role_assign" /\ pc' # pc) =>
               pc' = "role_update_ps" /\ in_recovery' = recovery
          /\ (pc = "role_update_ps" /\ pc' # pc) =>
               pc' = "reload" /\ ps_display' = TitleOf(members, in_recovery)
          ]_vars

C16_Witness ==
    /\ pc = "reload"
    /\ log = PromotedLine
    /\ recovery /\ in_recovery
    /\ members = 1
    /\ ps_display = "[1] Hello!"


(***************************************************************************)
(* C17: the role logged and the role recorded.                             *)
(***************************************************************************)
\* C17: an iteration that logged the role transition records a role that
\* differs from the one recorded before and that is the value sampled by
\* the comparison (the opposite of the role recorded before), whatever
\* the host does between the two reads of RecoveryInProgress().
C17_RecordedRoleIsSampledRole ==
    [][(pc = "role_assign" /\ pc' # pc) =>
           /\ log = PromotedLine
           /\ in_recovery' # in_recovery
           /\ in_recovery' = ~in_recovery
      ]_vars


(***************************************************************************)
(* C18: no reload request is slept on.                                     *)
(***************************************************************************)
\* C18: wherever SIGHUP arrives, the worker is never in its wait with the
\* reload flag set and the latch cleared, no wait ends by its timeout while
\* the flag is set, and the flag is cleared by the reload handling of line
\* 276 only.
C18_NoLostReload ==
    [][/\ (pc' = "waiting" /\ ConfigReloadPending') => latch'
       /\ (pc = "waiting" /\ pc' = "reset_latch" /\ ConfigReloadPending) =>
            wakeup' # "timeout"
       /\ (ConfigReloadPending /\ ~ConfigReloadPending') =>
            pc = "reload" /\ pc' = "wait"
       /\ (pc = "reload" /\ pc' = "wait") => ~ConfigReloadPending'
      ]_vars

C18_Witness ==
    /\ pc = "reset_latch"
    /\ wakeup = "latch"
    /\ latch
    /\ ConfigReloadPending
    /\ ~hupOld


(***************************************************************************)
(* C19: the member list of the membership line.                            *)
(***************************************************************************)
\* the members of a view as nodeid/pid, separated by ", "
RECURSIVE ViewText(_)
ViewText(list) ==
    IF list = <<>> THEN ""
    ELSE (IF Len(list) = 1 THEN ""
          ELSE ViewText(SubSeq(list, 1, Len(list) - 1)) \o ", ")
         \o FormatD(list[Len(list)].nodeid)
         \o "/" \o FormatD(list[Len(list)].pid)

\* C19: for every view, the empty one included, the membership line just
\* logged ends with the ", "-separated nodeid/pid list of the view in view
\* order, and the offset 2 at which the built string is read is not past
\* its end.
C19_MemberTextWellFormed ==
    (Running /\ pc = "cb_check") =>
        /\ 2 <= Len(MemberMsg(member_list))
        /\ log = LogLine("LOG",
                     ConfchgLine(joined_list_entries, Len(left_list),
                                 ViewText(member_list)))

====
